---------------------------- MODULE Spec2Model ----------------------------
(***************************************************************************)
(* A model of dynamic-training-bench's helper library:                     *)
(*   src/inputs/utils.py  colour-space conversion, TFRecord serialization  *)
(*   src/models/utils.py  layer primitives, the two custom dropouts, the   *)
(*                        kernel-grid visualization                        *)
(*                                                                         *)
(* The library is a set of functions a model-definition script calls one   *)
(* after the other.  The state is what such a script can observe: the      *)
(* last call (op), its inputs (args), what it returned or raised (ret),    *)
(* the files of the data directory, the graph's named collections and the  *)
(* image being converted between colour spaces.  Each function is one      *)
(* action.  Tensors are records [shape, data] with data in row-major       *)
(* order; real numbers are exact rationals <<numerator, denominator>>.     *)
(***************************************************************************)
EXTENDS Integers, Sequences, FiniteSets, TLC

VARIABLES
    op,           \* the function called last ("init" before any call)
    args,         \* the inputs of that call
    ret,          \* [raised |-> the exception, "none" when it returned, ...]
    files,        \* data_dir: file name -> [exists, records, closed]
    collections,  \* the graph's named collections: name -> number of entries
    image,        \* the image tensor being colour-converted
    original      \* the RGB image the conversion started from

vars == <<op, args, ret, files, collections, image, original>>

(***************************************************************************)
(* Bounds of the model.                                                    *)
(***************************************************************************)
\* datasets hold at most this many images / labels
MaxExamples == 2
\* a layer output given to a dropout holds at most this many activations
MaxElements == 4
\* images given to the colour conversions hold at most this many pixels
MaxPixels == 2
\* their channel values are the multiples of 1 / ColorSteps in [0, 1]
ColorSteps == 2
\* kernels put on a grid are at most MaxKernelSide by MaxKernelSide pixels,
\* on a grid of at most MaxGridSide by MaxGridSide, padded by at most MaxPad
MaxKernelSide == 2
MaxGridSide == 2
MaxPad == 2
\* the layers are built while no collection holds more than this many
\* entries
MaxEntries == 8

(***************************************************************************)
(* Sequences.                                                              *)
(***************************************************************************)
Range(s) == {s[i] : i \in DOMAIN s}

RECURSIVE Product(_)
Product(s) == IF s = <<>> THEN 1 ELSE Head(s) * Product(Tail(s))

Min(a, b) == IF a <= b THEN a ELSE b
Max(a, b) == IF a >= b THEN a ELSE b
Abs(a) == IF a < 0 THEN -a ELSE a

(***************************************************************************)
(* Real numbers: exact rationals <<n, d>> in lowest terms with d > 0.  NaN *)
(* stands for every non-finite float (inf, -inf, nan): the result of a     *)
(* division by zero and of any operation on a non-finite operand.          *)
(***************************************************************************)
RECURSIVE GCD(_, _)
GCD(a, b) == IF b = 0 THEN a ELSE GCD(b, a % b)

NaN == <<0, 0>>
IsNaN(q) == q[2] = 0

Rat(n, d) ==
    IF d = 0 THEN NaN
    ELSE LET g == GCD(Abs(n), Abs(d))
             sgn == IF d < 0 THEN -1 ELSE 1
         IN  <<(sgn * n) \div g, (sgn * d) \div g>>

Zero == <<0, 1>>
One == <<1, 1>>

\* (over the least common denominator, which keeps the products small)
RAdd(p, q) ==
    IF IsNaN(p) \/ IsNaN(q) THEN NaN
    ELSE LET g == GCD(p[2], q[2])
         IN  Rat(p[1] * (q[2] \div g) + q[1] * (p[2] \div g),
                 (p[2] \div g) * q[2])
RSub(p, q) == RAdd(p, <<-q[1], q[2]>>)
RMul(p, q) ==
    IF IsNaN(p) \/ IsNaN(q) THEN NaN ELSE Rat(p[1] * q[1], p[2] * q[2])
RDiv(p, q) ==
    IF IsNaN(p) \/ IsNaN(q) THEN NaN ELSE Rat(p[1] * q[2], p[2] * q[1])
RLess(p, q) == p[1] * q[2] < q[1] * p[2]
RLeq(p, q) == p[1] * q[2] <= q[1] * p[2]
\* tf.floor
RFloor(q) == IF IsNaN(q) THEN NaN ELSE <<q[1] \div q[2], 1>>

RECURSIVE RPow(_, _)
RPow(q, k) == IF k = 0 THEN One ELSE RMul(q, RPow(q, k - 1))

RECURSIVE RSum(_)
RSum(s) == IF s = <<>> THEN Zero ELSE RAdd(Head(s), RSum(Tail(s)))

(***************************************************************************)
(* Tensors: [shape |-> <<d1, ..., dk>>, data |-> the elements, row-major]. *)
(***************************************************************************)
Tensor(shape, data) == [shape |-> shape, data |-> data]

\* the multi-index (0-based) of flat position i (0-based), and back
RECURSIVE Unravel(_, _)
Unravel(i, shape) ==
    IF shape = <<>> THEN <<>>
    ELSE LET rest == Product(Tail(shape))
         IN  <<i \div rest>> \o Unravel(i % rest, Tail(shape))

RECURSIVE Ravel(_, _)
Ravel(idx, shape) ==
    IF shape = <<>> THEN 0
    ELSE Head(idx) * Product(Tail(shape)) + Ravel(Tail(idx), Tail(shape))

\* numpy broadcasting of two shapes of the same rank
Broadcastable(s1, s2) ==
    /\ Len(s1) = Len(s2)
    /\ \A j \in 1..Len(s1) : s1[j] = s2[j] \/ s1[j] = 1 \/ s2[j] = 1

BroadcastShape(s1, s2) == [j \in 1..Len(s1) |-> Max(s1[j], s2[j])]

\* the element of t that broadcasting puts at multi-index idx
BroadcastAt(t, idx) ==
    t.data[Ravel([j \in 1..Len(idx) |->
                     IF t.shape[j] = 1 THEN 0 ELSE idx[j]], t.shape) + 1]

\* the scalar operation named f
Apply(f, p, q) ==
    CASE f = "mul" -> RMul(p, q)
      [] f = "div" -> RDiv(p, q)

\* an elementwise binary operation (+, tf.mul, tf.div, *) with broadcasting
Elementwise(f, a, b) ==
    LET shape == BroadcastShape(a.shape, b.shape)
    IN  Tensor(shape,
               [i \in 1..Product(shape) |->
                   LET idx == Unravel(i - 1, shape)
                   IN  Apply(f, BroadcastAt(a, idx), BroadcastAt(b, idx))])

\* tf.reshape with at most one -1 in the target: the target resolved, or
\* <<>> when the elements do not fit (tf.reshape raises)
ReshapeTarget(numElements, target) ==
    LET known == Product([j \in 1..Len(target) |->
                             IF target[j] = -1 THEN 1 ELSE target[j]])
    IN  IF \E j \in 1..Len(target) : target[j] = -1
        THEN IF known # 0 /\ numElements % known = 0
             THEN [j \in 1..Len(target) |->
                      IF target[j] = -1 THEN numElements \div known
                      ELSE target[j]]
             ELSE <<>>
        ELSE IF known = numElements THEN target ELSE <<>>

CanReshape(t, target) == ReshapeTarget(Len(t.data), target) # <<>>

Reshape(t, target) == Tensor(ReshapeTarget(Len(t.data), target), t.data)

\* tf.expand_dims(t, 1) of a 1-D tensor
ExpandDims1(t) == Tensor(<<t.shape[1], 1>>, t.data)

\* tf.reduce_sum over every axis but the first ([1, 2, 3] or [1]) of integers
ReduceSumRows(t) ==
    LET row == Product(Tail(t.shape))
        RECURSIVE SumTo(_, _)
        SumTo(b, k) ==
            IF k = 0 THEN 0 ELSE t.data[b * row + k] + SumTo(b, k - 1)
    IN  Tensor(<<t.shape[1]>>, [b \in 1..t.shape[1] |-> SumTo(b - 1, row)])

(***************************************************************************)
(* What a call leaves in ret.                                              *)
(***************************************************************************)
\* the call raised exception
Raise(exception) == [raised |-> exception]
\* a dropout returned value; binary_tensor is the mask it computed (None
\* when it returned before computing one)
Return(value, binary_tensor) ==
    [raised |-> "none", value |-> value, binary_tensor |-> binary_tensor]

(***************************************************************************)
(* inputs/utils.py: InputType and convert_to_tfrecords.                    *)
(***************************************************************************)
\* class InputType(Enum): the split names, str(InputType.x)
InputType == {"validation", "train", "test"}

\* rows, cols, depth of every image of the modelled datasets
\* (images.shape[1:]); the conversion only copies them into each record
ImageShape == <<2, 2, 3>>

\* A dataset object as convert_to_tfrecords reads it: images (a numpy array
\* whose first dimension counts the images; image i is the opaque value i),
\* labels (label i is the integer i - 1) and num_examples.
Dataset(numImages, numLabels, numExamples) ==
    [images       |-> [shape |-> <<numImages>> \o ImageShape,
                       data  |-> [i \in 1..numImages |-> i]],
     labels       |-> [i \in 1..numLabels |-> i - 1],
     num_examples |-> numExamples]

Datasets ==
    {Dataset(i, l, n) : i \in 0..MaxExamples, l \in 0..MaxExamples,
                        n \in 0..MaxExamples}

NoFile == [exists |-> FALSE, records |-> <<>>, closed |-> FALSE]

\* os.path.join(data_dir, name + '.tfrecords')
Filename(name) == name \o ".tfrecords"

Filenames == {Filename(n) : n \in InputType}

\* the tf.train.Example built for index (0-based) of the loop
Example(dataset, index) ==
    [height    |-> dataset.images.shape[2],
     width     |-> dataset.images.shape[3],
     depth     |-> dataset.images.shape[4],
     label     |-> dataset.labels[index + 1],
     image_raw |-> dataset.images.data[index + 1]]

\* the number of iterations of `for index in range(num_examples)` that
\* complete: labels[index] raises IndexError at the first index past labels
\* (images[index] cannot: the check made images.shape[0] = num_examples)
CompletedIterations(dataset) ==
    Min(dataset.num_examples, Len(dataset.labels))

\* the size check of convert_to_tfrecords
SizeMismatch(dataset) ==
    dataset.images.shape[1] # dataset.num_examples

ConvertToTfrecords(dataset, name) ==
    /\ op' = "convert_to_tfrecords"
    /\ args' = [dataset |-> dataset, name |-> name]
    /\ IF SizeMismatch(dataset)
       THEN \* raise ValueError: nothing was opened
            /\ ret' = [raised |-> "ValueError"]
            /\ files' = files
       ELSE LET filename == Filename(name)
                done == CompletedIterations(dataset)
                written == [i \in 1..done |-> Example(dataset, i - 1)]
                failed == done < dataset.num_examples
            IN  \* TFRecordWriter(filename) creates or truncates the file;
                \* writer.close() is reached only when the loop completes
                /\ files' = [files EXCEPT ![filename] =
                                [exists  |-> TRUE,
                                 records |-> written,
                                 closed  |-> ~failed]]
                /\ ret' = [raised |-> IF failed THEN "IndexError" ELSE "none"]
    /\ UNCHANGED <<collections, image, original>>

NextRecords ==
    \E dataset \in Datasets, name \in InputType :
        ConvertToTfrecords(dataset, name)

(***************************************************************************)
(* inputs/utils.py: rgb2yuv and yuv2rgb.                                   *)
(*                                                                         *)
(* Pixel values are fixed-point numbers, integers in units of 10^-6; the   *)
(* filter coefficients are integers in units of 10^-8, digit for digit the *)
(* literals of the source.  A product is rounded down to 10^-6, a finer    *)
(* grid than float32 has at these magnitudes.                              *)
(***************************************************************************)
Micro == 10 ^ 6
Limb == 10 ^ 4

\* floor(a * c / 10^8) for a pixel value a and a coefficient c, computed on
\* four-digit limbs so that no intermediate product leaves 32 bits
FixMul(a, c) ==
    LET ah == a \div Limb
        al == a % Limb
        ch == c \div Limb
        cl == c % Limb
    IN  ah * ch + ((ah * cl + al * ch) + (al * cl) \div Limb) \div Limb

\* rgb2yuv_filter[0][0][input channel][output channel]
rgb2yuv_filter ==
    << <<29900000, -16900000, 49900000>>,
       <<58700000, -33100000, -41800000>>,
       <<11400000, 49900000, -8130000>> >>
\* rgb2yuv_bias = [0., 0.5, 0.5]
rgb2yuv_bias == <<0, 500000, 500000>>

\* yuv2rgb_filter[0][0][input channel][output channel]
yuv2rgb_filter ==
    << <<100000000, 100000000, 100000000>>,
       <<0, -34413999, 177199996>>,
       <<140199995, -71414000, 0>> >>
\* yuv2rgb_bias = [-179.45599365, 135.45983887, -226.81599426], to 10^-6
yuv2rgb_bias == <<-179455994, 135459839, -226815994>>

\* the 255 of tf.mul(yuv, 255), of the clamp and of tf.div(temp, 255)
MaxByte == 255

\* tf.nn.conv2d(image, filter, [1, 1, 1, 1], 'SAME') with a 1x1 filter
\* followed by tf.nn.bias_add: per pixel, output channel o is
\* sum over c of pixel[c] * filter[c][o], plus bias[o]
\* (expand_dims before and squeeze after leave the data as they are)
ConvBias(t, filter, bias) ==
    Tensor(t.shape,
           [i \in 1..Len(t.data) |->
               LET base == ((i - 1) \div 3) * 3
                   o == ((i - 1) % 3) + 1
               IN  FixMul(t.data[base + 1], filter[1][o])
                   + FixMul(t.data[base + 2], filter[2][o])
                   + FixMul(t.data[base + 3], filter[3][o])
                   + bias[o]])

rgb2yuv(rgb) == ConvBias(rgb, rgb2yuv_filter, rgb2yuv_bias)

yuv2rgb(yuv) ==
    LET scaled == Tensor(yuv.shape,
                         [i \in 1..Len(yuv.data) |-> yuv.data[i] * MaxByte])
        temp == ConvBias(scaled, yuv2rgb_filter, yuv2rgb_bias)
    IN  Tensor(temp.shape,
               [i \in 1..Len(temp.data) |->
                   Min(Max(temp.data[i], 0), MaxByte * Micro) \div MaxByte])

\* the RGB images of the model: [height, width, 3] with channels in [0, 1]
ColorLevels == {(k * Micro) \div ColorSteps : k \in 0..ColorSteps}

ImageShapes ==
    {<<h, w, 3>> : h \in 1..MaxPixels, w \in 1..MaxPixels} \cap
    {sh \in [1..3 -> 1..MaxPixels \cup {3}] : sh[1] * sh[2] <= MaxPixels}

Rgb2Yuv ==
    /\ op = "init"
    /\ op' = "rgb2yuv"
    /\ image' = rgb2yuv(image)
    /\ UNCHANGED <<args, ret, files, collections, original>>

Yuv2Rgb ==
    /\ op = "rgb2yuv"
    /\ op' = "yuv2rgb"
    /\ image' = yuv2rgb(image)
    /\ UNCHANGED <<args, ret, files, collections, original>>

NextColor == Rgb2Yuv \/ Yuv2Rgb

(***************************************************************************)
(* models/utils.py: put_kernels_on_grid.                                   *)
(***************************************************************************)
\* a padding that puts all of it after the data: the shape of tf.pad, the
\* data not moved off the origin
PadAfter(t, paddings) ==
    LET shape == [j \in 1..Len(t.shape) |->
                     t.shape[j] + paddings[j][1] + paddings[j][2]]
    IN  Tensor(shape,
               [i \in 1..Product(shape) |->
                   LET idx == Unravel(i - 1, shape)
                   IN  IF \A j \in 1..Len(shape) : idx[j] < t.shape[j]
                       THEN t.data[Ravel(idx, t.shape) + 1]
                       ELSE Zero])

\* tf.pad(t, paddings, mode='CONSTANT'): paddings[j] = <<before, after>>
Pad(t, paddings) ==
    LET shape == [j \in 1..Len(t.shape) |->
                     t.shape[j] + paddings[j][1] + paddings[j][2]]
    IN  Tensor(shape,
               [i \in 1..Product(shape) |->
                   LET idx == Unravel(i - 1, shape)
                       src == [j \in 1..Len(shape) |-> idx[j] - paddings[j][1]]
                   IN  IF \A j \in 1..Len(shape) :
                              src[j] >= 0 /\ src[j] < t.shape[j]
                       THEN t.data[Ravel(src, t.shape) + 1]
                       ELSE Zero])

\* tf.transpose(t, perm), perm 0-based: axis j of the result is axis
\* perm[j] of t
Transpose(t, perm) ==
    LET shape == [j \in 1..Len(perm) |-> t.shape[perm[j] + 1]]
    IN  Tensor(shape,
               [i \in 1..Product(shape) |->
                   LET idx == Unravel(i - 1, shape)
                       src == [a \in 1..Len(perm) |->
                                  idx[CHOOSE j \in 1..Len(perm) :
                                          perm[j] + 1 = a]]
                   IN  t.data[Ravel(src, t.shape) + 1]])

RECURSIVE SeqMin(_)
SeqMin(s) ==
    IF Len(s) = 1 THEN s[1]
    ELSE LET m == SeqMin(Tail(s)) IN IF RLess(s[1], m) THEN s[1] ELSE m

RECURSIVE SeqMax(_)
SeqMax(s) ==
    IF Len(s) = 1 THEN s[1]
    ELSE LET m == SeqMax(Tail(s)) IN IF RLess(m, s[1]) THEN s[1] ELSE m

\* kernel1 = (kernel - x_min) / (x_max - x_min)
Normalize(kernel) ==
    LET x_min == SeqMin(kernel.data)
        x_max == SeqMax(kernel.data)
    IN  Tensor(kernel.shape,
               [i \in 1..Len(kernel.data) |->
                   RDiv(RSub(kernel.data[i], x_min), RSub(x_max, x_min))])

\* tf.image.convert_image_dtype(image, dtype=tf.uint8) of a float image:
\* cast(image * (255 + 0.5)) without saturation, the cast truncating.  The
\* cast of a non-finite value is not defined by the framework: nan_byte is
\* what the build gives.
ConvertImageDtype(t, nan_byte) ==
    Tensor(t.shape,
           [i \in 1..Len(t.data) |->
               IF IsNaN(t.data[i]) THEN nan_byte
               ELSE (t.data[i][1] * 511) \div (t.data[i][2] * 2)])

\* the bytes the cast of a non-finite float is modelled to give
NanBytes == {0, 255}

\* the grid left as the docstring describes it, [height, width,
\* NumChannels, 1]
GridLast(x6) == x6

\* `x7 = tf.transpose(x6, (3, 0, 1, 2))`: to the order tf.summary.image
\* takes, [batch_size, height, width, channels]
ToImageSummaryOrder(x6) == Transpose(x6, <<3, 0, 1, 2>>)

put_kernels_on_grid(kernel, grid_side, pad, nan_byte) ==
    LET kernel1 == Normalize(kernel)
        x1 == Pad(kernel1, <<<<pad, pad>>, <<pad, pad>>, <<0, 0>>, <<0, 0>>>>)
        Y == kernel1.shape[1] + 2 * pad
        X == kernel1.shape[2] + 2 * pad
        channels == kernel1.shape[3]
        x2 == Transpose(x1, <<3, 0, 1, 2>>)
        grid_y == <<grid_side, Y * grid_side, X, channels>>
        x3 == Reshape(x2, grid_y)
        x4 == Transpose(x3, <<0, 2, 1, 3>>)
        grid_x == <<1, X * grid_side, Y * grid_side, channels>>
        x5 == Reshape(x4, grid_x)
        x6 == Transpose(x5, <<2, 1, 3, 0>>)
        x7 == ToImageSummaryOrder(x6)
    IN  IF ~CanReshape(x2, grid_y) THEN Raise("ValueError")
        ELSE IF ~CanReshape(x4, grid_x) THEN Raise("ValueError")
        ELSE [raised |-> "none", value |-> ConvertImageDtype(x7, nan_byte)]

\* the first-layer channel counts an image summary shows (weight():
\* shape[2] in (1, 3, 4))
ImageChannels == {1, 3, 4}

\* the kernels of the model: [Y, X, NumChannels, grid_side**2], element i
\* (row-major) being i or -i
KernelSigns == {1, -1}

GridCalls ==
    {[kernel |-> Tensor(<<y, x, c, g * g>>,
                        [i \in 1..(y * x * c * g * g) |-> <<sign * i, 1>>]),
      grid_side |-> g, pad |-> pad] :
        y \in 1..MaxKernelSide, x \in 1..MaxKernelSide, c \in ImageChannels,
        g \in 1..MaxGridSide, pad \in 0..MaxPad, sign \in KernelSigns}

PutKernelsOnGrid ==
    /\ op = "init"
    /\ op' = "put_kernels_on_grid"
    /\ \E nan_byte \in NanBytes :
           ret' = put_kernels_on_grid(args.kernel, args.grid_side, args.pad,
                                      nan_byte)
    /\ UNCHANGED <<args, files, collections, image, original>>

NextGrid == PutKernelsOnGrid

(***************************************************************************)
(* models/utils.py: binomial_dropout and direct_dropout.                   *)
(***************************************************************************)
\* Python's None
None == <<>>

\* The layer outputs given to the dropouts: 2-D [batch_size, num_neurons]
\* and 4-D [batch_size, width, height, depth] tensors.
LayerShapes ==
    {sh \in [1..2 -> 1..MaxElements] \cup [1..4 -> 1..MaxElements] :
        Product(sh) <= MaxElements}

\* the activations the modelled layers output: element i (row-major) of a
\* layer output is i + a for an offset a, so that no two elements of a
\* tensor are equal and some are negative or zero
XOffsets == {-2, 0}

LayerOutputs ==
    {Tensor(sh, [i \in 1..Product(sh) |-> <<i + a, 1>>]) :
        sh \in LayerShapes, a \in XOffsets}

\* keep_prob as the caller supplies it: a Python number, a constant tensor
\* (tf.constant, its value known when the graph is built) or a tensor whose
\* value is only known when the graph runs (a placeholder)
KeepProbKinds == {"number", "constant", "placeholder"}
KeepProbValues ==
    {<<-1, 4>>, <<0, 1>>, <<1, 4>>, <<1, 2>>, <<3, 4>>, <<1, 1>>, <<5, 4>>}
KeepProbs == [kind : KeepProbKinds, value : KeepProbValues]

\* noise_shape: None, or a shape broadcastable to the shape of x
NoiseShapes(shape) ==
    {None} \cup {ns \in [1..Len(shape) -> {1} \cup Range(shape)] :
                    \A j \in 1..Len(shape) : ns[j] \in {1, shape[j]}}

\* values tf.random_uniform draws from [0, 1)
UniformValues == {<<0, 1>>, <<3, 4>>}

\* `isinstance(keep_prob, numbers.Real) and not 0 < keep_prob <= 1`
InvalidNumber(keep_prob) ==
    /\ keep_prob.kind = "number"
    /\ ~(RLess(Zero, keep_prob.value) /\ RLeq(keep_prob.value, One))

\* tf.contrib.util.constant_value(keep_prob) after tf.convert_to_tensor
constant_value(keep_prob) ==
    IF keep_prob.kind = "placeholder" THEN None ELSE keep_prob.value

\* `noise_shape if noise_shape is not None else tf.shape(x)`
NoiseShapeOf(x, noise_shape) ==
    IF noise_shape = None THEN x.shape ELSE noise_shape

\* whether the call gets as far as tf.random_uniform
DrawsNoise(keep_prob) ==
    ~InvalidNumber(keep_prob) /\ constant_value(keep_prob) # One

\* the tensors tf.random_uniform(noise_shape) can return in the call
\* (None when the call returns or raises before it)
UniformDraws(x, keep_prob, noise_shape) ==
    IF DrawsNoise(keep_prob)
    THEN LET ns == NoiseShapeOf(x, noise_shape)
         IN  {Tensor(ns, d) : d \in [1..Product(ns) -> UniformValues]}
    ELSE {None}

\* random_tensor = keep_prob + tf.random_uniform(...)
RandomTensor(p, uniform) ==
    Tensor(uniform.shape,
           [i \in 1..Len(uniform.data) |-> RAdd(p, uniform.data[i])])

\* binary_tensor = tf.floor(random_tensor)
BinaryTensor(random_tensor) ==
    Tensor(random_tensor.shape,
           [i \in 1..Len(random_tensor.data) |->
               RFloor(random_tensor.data[i])])

num_neurons_and_shape(layer) ==
    LET input_shape == layer.shape
    IN  IF Len(input_shape) = 4
        THEN [num_neurons |->
                  input_shape[2] * input_shape[3] * input_shape[4],
              shape |-> <<-1, input_shape[2], input_shape[3], input_shape[4]>>]
        ELSE [num_neurons |-> input_shape[2],
              shape |-> <<-1, input_shape[2]>>]

\* active_neurons counting over the whole batch instead of per element of
\* the first axis (a reduce_sum over every axis, the total repeated)
active_neurons_of_batch(layer, off_value) ==
    LET total == Cardinality({i \in 1..Len(layer.data) :
                     ~IsNaN(layer.data[i]) /\ RLess(off_value, layer.data[i])})
    IN  Tensor(<<layer.shape[1]>>, [b \in 1..layer.shape[1] |-> total])

\* a 1-D integer tensor: per element of the first axis, the number of
\* entries > off_value
active_neurons(layer, off_value) ==
    ReduceSumRows(
        Tensor(layer.shape,
               [i \in 1..Len(layer.data) |->
                   IF ~IsNaN(layer.data[i]) /\ RLess(off_value, layer.data[i])
                   THEN 1 ELSE 0]))

RECURSIVE Choose(_, _)
Choose(n, k) ==
    IF k = 0 THEN 1
    ELSE IF k > n THEN 0
    ELSE Choose(n - 1, k - 1) + Choose(n - 1, k)

\* tf.contrib.distributions.Binomial(n, p).prob(k), computed by the
\* framework as exp(log_prob): the probability mass for 0 < p < 1; 0 for a
\* count above n (the log-gamma of the normalization is infinite); not finite
\* for p outside (0, 1), where log(p) or log(1 - p) is.
BinomialProb(n, p, k) ==
    IF ~(RLess(Zero, p) /\ RLess(p, One)) THEN NaN
    ELSE IF k > n THEN Zero
    ELSE RMul(<<Choose(n, k), 1>>,
              RMul(RPow(p, k), RPow(RSub(One, p), n - k)))

\* prob = dist.prob(tf.cast(active_neurons(binary_tensor), tf.float32))
KeptOnProb(num_neurons, p, binary_tensor) ==
    LET kept_on == active_neurons(binary_tensor, Zero)
    IN  Tensor(kept_on.shape,
               [b \in 1..Len(kept_on.data) |->
                   BinomialProb(num_neurons, p, kept_on.data[b])])

\* the inner function drop() of binomial_dropout, with the shape checks the
\* framework makes as each op is built
drop(x, p, binary_tensor) ==
    LET ns == num_neurons_and_shape(x)
        prob == KeptOnProb(ns.num_neurons, p, binary_tensor)
        rows == <<-1, ns.num_neurons>>
        denominator ==
            ExpandDims1(Tensor(prob.shape,
                               [b \in 1..Len(prob.data) |->
                                   RSub(One, prob.data[b])]))
        scaled == Elementwise("div", Reshape(binary_tensor, rows), denominator)
        boost_mask == Reshape(scaled, ns.shape)
        result == Elementwise("mul", x, boost_mask)
    IN  IF ~CanReshape(binary_tensor, rows) THEN Raise("ValueError")
        ELSE IF ~Broadcastable(ReshapeTarget(Len(binary_tensor.data), rows),
                               denominator.shape)
        THEN Raise("ValueError")
        ELSE IF ~CanReshape(scaled, ns.shape) THEN Raise("ValueError")
        ELSE IF ~Broadcastable(x.shape, boost_mask.shape)
        THEN Raise("ValueError")
        \* ret.set_shape(x.get_shape())
        ELSE IF result.shape # x.shape THEN Raise("ValueError")
        ELSE Return(result, binary_tensor)

\* the tf.cond left out: the result of drop() is returned whatever
\* keep_prob is
CondAlwaysDrop(x, p, dropped) == dropped

\* tf.cond(tf.equal(keep_prob, 1.0), lambda: x, drop): both branches are
\* built with the graph (an error building drop is raised whatever
\* keep_prob is); the run takes one of them
CondKeepAll(x, p, dropped) ==
    IF dropped.raised # "none" THEN dropped
    ELSE IF p = One THEN Return(x, dropped.binary_tensor)
    ELSE dropped

binomial_dropout(x, keep_prob, noise_shape, uniform) ==
    IF InvalidNumber(keep_prob) THEN Raise("ValueError")
    \* do nothing if we know keep_prob == 1
    ELSE IF constant_value(keep_prob) = One THEN Return(x, None)
    ELSE LET binary_tensor ==
                 BinaryTensor(RandomTensor(keep_prob.value, uniform))
         IN  CondKeepAll(x, keep_prob.value,
                         drop(x, keep_prob.value, binary_tensor))

\* the inverted dropout instead: the kept activations scaled by
\* 1 / keep_prob at train time
InvertedMask(x, p, binary_tensor) ==
    LET result ==
            Elementwise("mul", x,
                        Tensor(binary_tensor.shape,
                               [i \in 1..Len(binary_tensor.data) |->
                                   RDiv(binary_tensor.data[i], p)]))
    IN  IF ~Broadcastable(x.shape, binary_tensor.shape)
        THEN Raise("ValueError")
        ELSE IF result.shape # x.shape THEN Raise("ValueError")
        ELSE Return(result, binary_tensor)

\* ret = tf.mul(x, binary_tensor); ret.set_shape(x.get_shape())
DirectMask(x, p, binary_tensor) ==
    LET result == Elementwise("mul", x, binary_tensor)
    IN  IF ~Broadcastable(x.shape, binary_tensor.shape)
        THEN Raise("ValueError")
        ELSE IF result.shape # x.shape THEN Raise("ValueError")
        ELSE Return(result, binary_tensor)

direct_dropout(x, keep_prob, noise_shape, uniform) ==
    IF InvalidNumber(keep_prob) THEN Raise("ValueError")
    \* do nothing if we know keep_prob == 1
    ELSE IF constant_value(keep_prob) = One THEN Return(x, None)
    ELSE DirectMask(x, keep_prob.value,
                    BinaryTensor(RandomTensor(keep_prob.value, uniform)))

BinomialDropout ==
    /\ op = "init"
    /\ \E uniform \in UniformDraws(args.x, args.keep_prob, args.noise_shape) :
        /\ op' = "binomial_dropout"
        /\ args' = [args EXCEPT !.uniform = uniform]
        /\ ret' = binomial_dropout(args.x, args.keep_prob, args.noise_shape,
                                   uniform)
    /\ UNCHANGED <<files, collections, image, original>>

DirectDropout ==
    /\ op = "init"
    /\ \E uniform \in UniformDraws(args.x, args.keep_prob, args.noise_shape) :
        /\ op' = "direct_dropout"
        /\ args' = [args EXCEPT !.uniform = uniform]
        /\ ret' = direct_dropout(args.x, args.keep_prob, args.noise_shape,
                                 uniform)
    /\ UNCHANGED <<files, collections, image, original>>

NextDropout == BinomialDropout \/ DirectDropout

(***************************************************************************)
(* models/utils.py: the named collections and the layer primitives         *)
(* weight, bias, conv_layer, fc_layer, batch_norm.                         *)
(*                                                                         *)
(* A collection is modelled by the number of its entries                   *)
(* (tf.add_to_collection appends).  Each layer is built in a variable      *)
(* scope of its own, as the models calling these functions do.             *)
(***************************************************************************)
REQUIRED_NON_TRAINABLES == "required_vars_collection"
MODEL_SUMMARIES == "model_summaries"
\* the collection conv_layer and fc_layer add the weight decay to
LOSSES == "losses"
\* the framework's own collections (tf.GraphKeys) the calls below go through
GLOBAL_VARIABLES == "variables"
TRAINABLE_VARIABLES == "trainable_variables"
MODEL_VARIABLES == "model_variables"
SUMMARIES == "summaries"
UPDATE_OPS == "update_ops"
\* other collections of the graph, which none of the calls names
ACTIVATIONS == "activations"
REGULARIZATION_LOSSES == "regularization_losses"

CollectionNames ==
    {REQUIRED_NON_TRAINABLES, MODEL_SUMMARIES, LOSSES, GLOBAL_VARIABLES,
     TRAINABLE_VARIABLES, MODEL_VARIABLES, SUMMARIES, UPDATE_OPS,
     ACTIVATIONS, REGULARIZATION_LOSSES}

\* tf.add_to_collection(name, value), k times
add_to_collection(colls, name, k) == [colls EXCEPT ![name] = @ + k]

\* tf.summary.image(...) / tf.summary.histogram(...): the summary op made,
\* which the framework registers in its default collection
summary(colls) == add_to_collection(colls, SUMMARIES, 1)

\* tf_log(summary, collection=MODEL_SUMMARIES)
tf_log(colls, collection) == add_to_collection(colls, collection, 1)

\* tf.get_variable(name, shape=..., initializer=..., dtype=tf.float32): a
\* trainable variable, registered by the framework
get_variable(colls) ==
    add_to_collection(add_to_collection(colls, GLOBAL_VARIABLES, 1),
                      TRAINABLE_VARIABLES, 1)

\* `len(shape) == 4 and shape[2] in (1, 3, 4)`
first_layer(shape) == Len(shape) = 4 /\ shape[3] \in ImageChannels

weight(colls, shape) ==
    LET weights == get_variable(colls)
        shown == IF first_layer(shape)
                 THEN tf_log(summary(weights), MODEL_SUMMARIES)
                 ELSE weights
    IN  tf_log(summary(shown), MODEL_SUMMARIES)

bias(colls, shape) == weight(colls, shape)

conv_layer(colls, shape) ==
    LET W == weight(colls, shape)
        b == bias(W, <<shape[4]>>)
        weight_decay == add_to_collection(b, LOSSES, 1)
    IN  \* the pre/post activation image summary
        tf_log(summary(weight_decay), MODEL_SUMMARIES)

fc_layer(colls, shape) ==
    LET W == weight(colls, shape)
        b == bias(W, <<shape[2]>>)
    IN  add_to_collection(b, LOSSES, 1)

\* tf.contrib.layers.batch_norm creating beta, gamma (trainable),
\* moving_mean and moving_variance as model variables of
\* variables_collections=[REQUIRED_NON_TRAINABLES]
batch_norm_variables(colls) ==
    add_to_collection(
        add_to_collection(
            add_to_collection(
                add_to_collection(colls, REQUIRED_NON_TRAINABLES, 4),
                GLOBAL_VARIABLES, 4),
            MODEL_VARIABLES, 4),
        TRAINABLE_VARIABLES, 2)

\* batch_norm called without updates_collections=None: the two moving
\* average updates are left in GraphKeys.UPDATE_OPS
batch_norm_deferred_updates(colls) ==
    add_to_collection(batch_norm_variables(colls), UPDATE_OPS, 2)

\* updates_collections=None (the moving averages are updated in place) and
\* outputs_collections=None
batch_norm(colls) == batch_norm_variables(colls)

\* weight shapes of the modelled layers: convolutions
\* [height, width, in channels, out channels], fully connected [in, out]
ConvShapes == {<<1, 1, 1, 1>>, <<2, 2, 3, 4>>, <<2, 2, 2, 4>>}
FcShapes == {<<4, 2>>}
BiasShapes == {<<2>>, <<4>>}

\* the graph is built while the collections stay within MaxEntries
WithinBound(colls) == \A c \in CollectionNames : colls[c] <= MaxEntries

\* a layer primitive was called: what it left in the collections and
\* returned (a tensor of the given shape; <<>> when the shape depends on the
\* input, which is not modelled)
Built(name, shape, colls, out) ==
    /\ WithinBound(colls)
    /\ op' = name
    /\ args' = [shape |-> shape]
    /\ ret' = [raised |-> "none", shape |-> out]
    /\ collections' = colls
    /\ UNCHANGED <<files, image, original>>

Weight ==
    \E shape \in ConvShapes \cup FcShapes :
        Built("weight", shape, weight(collections, shape), shape)

Bias ==
    \E shape \in BiasShapes :
        Built("bias", shape, bias(collections, shape), shape)

ConvLayer ==
    \E shape \in ConvShapes :
        Built("conv_layer", shape, conv_layer(collections, shape), <<>>)

FcLayer ==
    \E shape \in FcShapes :
        Built("fc_layer", shape, fc_layer(collections, shape), <<>>)

BatchNorm == Built("batch_norm", <<>>, batch_norm(collections), <<>>)

\* the dropout calls made while building layers
LayerDropoutCalls ==
    {[x |-> Tensor(<<1, 2>>, <<One, <<2, 1>>>>), keep_prob |-> keep_prob,
      noise_shape |-> None, uniform |-> None] :
        keep_prob \in {[kind |-> "number", value |-> <<1, 2>>],
                       [kind |-> "placeholder", value |-> One]}}

LayerBinomialDropout ==
    \E call \in LayerDropoutCalls :
        \E uniform \in UniformDraws(call.x, call.keep_prob, call.noise_shape) :
            /\ op' = "binomial_dropout"
            /\ args' = [call EXCEPT !.uniform = uniform]
            /\ ret' = binomial_dropout(call.x, call.keep_prob,
                                       call.noise_shape, uniform)
            /\ UNCHANGED <<files, collections, image, original>>

LayerDirectDropout ==
    \E call \in LayerDropoutCalls :
        \E uniform \in UniformDraws(call.x, call.keep_prob, call.noise_shape) :
            /\ op' = "direct_dropout"
            /\ args' = [call EXCEPT !.uniform = uniform]
            /\ ret' = direct_dropout(call.x, call.keep_prob,
                                     call.noise_shape, uniform)
            /\ UNCHANGED <<files, collections, image, original>>

NextLayers ==
    \/ Weight
    \/ Bias
    \/ ConvLayer
    \/ FcLayer
    \/ BatchNorm
    \/ LayerBinomialDropout
    \/ LayerDirectDropout

(***************************************************************************)
(* Specifications.                                                         *)
(***************************************************************************)
Init ==
    /\ op = "init"
    /\ args = <<>>
    /\ ret = [raised |-> "none"]
    /\ files = [f \in Filenames |-> NoFile]
    /\ collections = [c \in CollectionNames |-> 0]
    /\ image = <<>>
    /\ original = <<>>

\* dataset preparation: convert_to_tfrecords
SpecRecords == Init /\ [][NextRecords]_vars

\* a dropout applied to a layer output: the script has x, keep_prob and
\* noise_shape at hand and calls one of the two dropouts on them
InitDropout ==
    /\ op = "init"
    /\ \E x \in LayerOutputs, keep_prob \in KeepProbs :
          \E noise_shape \in NoiseShapes(x.shape) :
              args = [x |-> x, keep_prob |-> keep_prob,
                      noise_shape |-> noise_shape, uniform |-> None]
    /\ ret = [raised |-> "none"]
    /\ files = [f \in Filenames |-> NoFile]
    /\ collections = [c \in CollectionNames |-> 0]
    /\ image = <<>>
    /\ original = <<>>

SpecDropout == InitDropout /\ [][NextDropout]_vars

\* an RGB image converted to YUV and back
InitColor ==
    /\ op = "init"
    /\ args = <<>>
    /\ ret = [raised |-> "none"]
    /\ files = [f \in Filenames |-> NoFile]
    /\ collections = [c \in CollectionNames |-> 0]
    /\ \E sh \in ImageShapes :
          \E d \in [1..Product(sh) -> ColorLevels] : image = Tensor(sh, d)
    /\ original = image

SpecColor == InitColor /\ [][NextColor]_vars

\* a stack of kernels put on a grid
InitGrid ==
    /\ op = "init"
    /\ args \in GridCalls
    /\ ret = [raised |-> "none"]
    /\ files = [f \in Filenames |-> NoFile]
    /\ collections = [c \in CollectionNames |-> 0]
    /\ image = <<>>
    /\ original = <<>>

SpecGrid == InitGrid /\ [][NextGrid]_vars

\* a model being built out of the layer primitives and the dropouts
SpecLayers == Init /\ [][NextLayers]_vars

(***************************************************************************)
(* Claims.                                                                 *)
(***************************************************************************)
\* the call just made was convert_to_tfrecords on a dataset whose number
\* of images differs from its number of labels
MismatchedCall ==
    /\ op' = "convert_to_tfrecords"
    /\ args'.dataset.images.shape[1] # Len(args'.dataset.labels)

\* C1: a call of convert_to_tfrecords with a dataset whose number of images
\* differs from its number of labels raises the size error before the
\* output file is opened: no file is created and no record is written (the
\* data directory is as it was before the call).
C1_MismatchRaisesBeforeIO ==
    [][MismatchedCall => (ret'.raised = "ValueError" /\ files' = files)]_vars


(***************************************************************************)
(* Claims about the dropouts (under SpecDropout).                          *)
(***************************************************************************)
DropoutCalled == op \in {"binomial_dropout", "direct_dropout"}

\* keep_prob lies in (0, 1], in (0, 1)
InHalfOpenUnit(p) == RLess(Zero, p) /\ RLeq(p, One)
InOpenUnit(p) == RLess(Zero, p) /\ RLess(p, One)

\* C2: for every keep_prob value <= 0 or > 1, supplied as a Python number
\* or as a scalar tensor, both dropouts raise the validation failure and
\* return no tensor.
C2_InvalidKeepProbRaises ==
    (DropoutCalled /\ ~InHalfOpenUnit(args.keep_prob.value))
        => ret.raised = "ValueError"

\* C3: with keep_prob equal to 1, a constant known when the graph is built
\* or a tensor whose value is 1 when it runs, both dropouts return x itself,
\* element for element, whatever the random draw: every call that returns
\* returns x, and every call returns, those of binomial_dropout that combine
\* a run-time keep_prob with an explicit noise_shape set aside (the claim
\* names no noise_shape; C4 is about that combination).
C3_KeepAllIsNoOp ==
    (DropoutCalled /\ args.keep_prob.value = One)
        => /\ ret.raised = "none" => ret.value = args.x
           /\ (\/ op = "direct_dropout"
               \/ args.noise_shape = None
               \/ args.keep_prob.kind # "placeholder")
                  => ret.raised = "none"

\* C3's case: binomial_dropout got a run-time keep_prob of 1, drew its
\* noise, and returned a tensor of several elements
C3_Witness ==
    /\ op = "binomial_dropout"
    /\ args.keep_prob = [kind |-> "placeholder", value |-> One]
    /\ args.uniform # None
    /\ ret.raised = "none"
    /\ Len(ret.value.data) > 1

\* C4: for every keep_prob in (0, 1], every 2-D or 4-D x and every
\* noise_shape omitted or broadcastable to the shape of x, both dropouts
\* return a tensor with exactly the shape of x.
C4_OutputHasShapeOfX ==
    (DropoutCalled /\ InHalfOpenUnit(args.keep_prob.value))
        => (ret.raised = "none" /\ ret.value.shape = args.x.shape)


\* The keep/drop masks of a tensor of the shape of x: mask m of
\* 0..2^N - 1 keeps element i iff bit i - 1 of m is set.
MaskTensor(shape, m) ==
    Tensor(shape, [i \in 1..Product(shape) |->
                      IF (m \div 2 ^ (i - 1)) % 2 = 1 THEN One ELSE Zero])

\* The probability of a mask: each entry of binary_tensor is
\* floor(keep_prob + U) with U uniform on [0, 1), which is 1 with
\* probability keep_prob and 0 otherwise, independently.
RECURSIVE MaskProb(_, _)
MaskProb(p, bits) ==
    IF bits = <<>> THEN One
    ELSE RMul(IF Head(bits) = One THEN p ELSE RSub(One, p),
              MaskProb(p, Tail(bits)))

\* The expectation over the mask of output element i of the drop branch.
RECURSIVE ExpectedElement(_, _, _, _)
ExpectedElement(x, p, i, m) ==
    LET mask == MaskTensor(x.shape, m)
        bits == [j \in 1..Len(x.data) |-> mask.data[j]]
        term == RMul(MaskProb(p, bits), drop(x, p, mask).value.data[i])
    IN  IF m = 0 THEN term ELSE RAdd(term, ExpectedElement(x, p, i, m - 1))

\* The expectation over the mask of the sum of the output elements.
ExpectedOutputSum(x, p) ==
    RSum([i \in 1..Len(x.data) |->
             ExpectedElement(x, p, i, 2 ^ Len(x.data) - 1)])

\* C5: for every x and every keep_prob in (0, 1), the expectation over the
\* random keep/drop mask of the sum of the elements binomial_dropout outputs
\* equals the sum of the elements of x.
C5_ExpectedSumUnchanged ==
    (/\ op = "binomial_dropout"
     /\ InOpenUnit(args.keep_prob.value)
     /\ args.noise_shape = None)
        => ExpectedOutputSum(args.x, args.keep_prob.value) = RSum(args.x.data)

\* the rows of x: per batch element b, the flat positions of its neurons
RowPositions(x, b) ==
    LET n == num_neurons_and_shape(x).num_neurons
    IN  ((b - 1) * n + 1)..(b * n)

\* the number of neurons kept in batch element b
KeptIn(x, binary_tensor, b) ==
    Cardinality({i \in RowPositions(x, b) : binary_tensor.data[i] = One})

\* the factor of a batch element with kept of its n neurons kept:
\* 1 / (1 - P(Binomial(n, keep_prob) = kept))
BinomialScale(n, p, kept) ==
    RDiv(One,
         RSub(One, RMul(<<Choose(n, kept), 1>>,
                        RMul(RPow(p, kept), RPow(RSub(One, p), n - kept)))))

\* C8: in binomial_dropout with keep_prob in (0, 1) and the default
\* noise_shape the scale is per example: within each batch element every
\* dropped position outputs 0 and every kept position outputs its input
\* times one common factor, which is finite and is a function of the number
\* of neurons per element, keep_prob and the number of neurons kept in that
\* same element only.
C8_PerExampleScale ==
    (/\ op = "binomial_dropout"
     /\ InOpenUnit(args.keep_prob.value)
     /\ args.noise_shape = None)
        => /\ ret.raised = "none"
           /\ \A b \in 1..args.x.shape[1] :
                LET factor ==
                        BinomialScale(
                            num_neurons_and_shape(args.x).num_neurons,
                            args.keep_prob.value,
                            KeptIn(args.x, ret.binary_tensor, b))
                IN  /\ ~IsNaN(factor)
                    /\ \A i \in RowPositions(args.x, b) :
                         /\ ret.binary_tensor.data[i] \in {Zero, One}
                         /\ ret.value.data[i] =
                              IF ret.binary_tensor.data[i] = Zero THEN Zero
                              ELSE RMul(args.x.data[i], factor)

\* C8's case: a batch of two elements of two neurons each, one neuron kept in
\* the first element and both in the second, so that the two factors differ
C8_Witness ==
    /\ op = "binomial_dropout"
    /\ InOpenUnit(args.keep_prob.value)
    /\ args.noise_shape = None
    /\ args.x.shape = <<2, 2>>
    /\ ret.raised = "none"
    /\ KeptIn(args.x, ret.binary_tensor, 1) = 1
    /\ KeptIn(args.x, ret.binary_tensor, 2) = 2

\* C9: direct_dropout applies no scaling at train time: for every x and
\* keep_prob in (0, 1) the mask holds only 0 and 1, and every output element
\* is exactly the input element (mask 1) or 0 (mask 0).
C9_DirectKeepsOrZeroes ==
    (op = "direct_dropout" /\ InOpenUnit(args.keep_prob.value))
        => /\ ret.raised = "none"
           /\ \A j \in 1..Len(ret.binary_tensor.data) :
                ret.binary_tensor.data[j] \in {Zero, One}
           /\ \A i \in 1..Len(args.x.data) :
                ret.value.data[i] =
                    IF BroadcastAt(ret.binary_tensor,
                                   Unravel(i - 1, args.x.shape)) = One
                    THEN args.x.data[i] ELSE Zero

\* C9's case: direct_dropout kept one nonzero activation and dropped another
C9_Witness ==
    /\ op = "direct_dropout"
    /\ InOpenUnit(args.keep_prob.value)
    /\ ret.raised = "none"
    /\ \E i, j \in 1..Len(args.x.data) :
        /\ args.x.data[i] # Zero
        /\ args.x.data[j] # Zero
        /\ ret.value.data[i] = args.x.data[i]
        /\ ret.value.data[j] = Zero


(***************************************************************************)
(* Claims about the colour conversions (under SpecColor).                  *)
(***************************************************************************)
\* a tolerance of 10^-4 on the [0, 1] scale: a thousand times the rounding
\* unit of float32 there, a hundred times that of this model's arithmetic
FloatTolerance == Micro \div 10 ^ 4

\* C6: for every RGB image with channel values in [0, 1],
\* yuv2rgb(rgb2yuv(image)) equals the image in every channel of every
\* pixel, within floating-point tolerance.
C6_RoundTripReconstructs ==
    op = "yuv2rgb"
        => \A i \in 1..Len(original.data) :
               Abs(image.data[i] - original.data[i]) <= FloatTolerance


(***************************************************************************)
(* Claims about the kernel grid (under SpecGrid).                          *)
(***************************************************************************)
\* the sides of the grid image of the call: (Y + 2 * pad) * grid_side,
\* (X + 2 * pad) * grid_side
GridHeight == (args.kernel.shape[1] + 2 * args.pad) * args.grid_side
GridWidth == (args.kernel.shape[2] + 2 * args.pad) * args.grid_side

CellHeight == args.kernel.shape[1] + 2 * args.pad
CellWidth == args.kernel.shape[2] + 2 * args.pad

\* the byte of the image returned at row r, column s, channel c (0-based)
ImagePixel(r, s, c) ==
    ret.value.data[Ravel(<<0, r, s, c>>, ret.value.shape) + 1]

\* the bytes pixel (y, x, c) of kernel k may show as: its value after the
\* min-max normalization, scaled to a byte by the conversion to uint8 (any
\* byte of the cast when the normalization is 0/0, the kernel being
\* constant)
KernelBytes(y, x, c, k) ==
    LET kernel1 == Normalize(args.kernel)
        v == kernel1.data[Ravel(<<y, x, c, k>>, args.kernel.shape) + 1]
    IN  IF IsNaN(v) THEN NanBytes ELSE {(v[1] * 511) \div (v[2] * 2)}

\* C11: the kernels are placed into a grid with padding between adjacent
\* filters: the image is cut into grid_side by grid_side cells of
\* (Y + 2*pad) by (X + 2*pad) pixels; kernel k fills the cell of row
\* k mod grid_side and column k div grid_side, so that distinct kernels have
\* distinct cells; inside its cell the Y by X normalized pixels of the
\* kernel stand intact and contiguous, pad pixels from the cell's top and
\* left; every other pixel of the cell, its pad-wide border, is 0.
C11_KernelsInCells ==
    op = "put_kernels_on_grid"
        => /\ ret.raised = "none"
           /\ \A k \in 0..(args.grid_side * args.grid_side - 1) :
              \A r \in 0..(CellHeight - 1), s \in 0..(CellWidth - 1) :
              \A c \in 0..(args.kernel.shape[3] - 1) :
                LET row == (k % args.grid_side) * CellHeight + r
                    column == (k \div args.grid_side) * CellWidth + s
                    y == r - args.pad
                    x == s - args.pad
                IN  IF /\ y >= 0 /\ y < args.kernel.shape[1]
                       /\ x >= 0 /\ x < args.kernel.shape[2]
                    THEN ImagePixel(row, column, c) \in KernelBytes(y, x, c, k)
                    ELSE ImagePixel(row, column, c) = 0

\* C11's case: four kernels of two by one pixels and three channels, padded
\* by one pixel, on a grid of side two; the corner of the image is border,
\* and the first pixels of kernels 1 and 2 show in the cells below and to
\* the right of the first, with the bytes of their normalized values
C11_Witness ==
    /\ op = "put_kernels_on_grid"
    /\ args.grid_side = 2
    /\ args.pad = 1
    /\ args.kernel.shape = <<2, 1, 3, 4>>
    /\ args.kernel.data[1] = One
    /\ ret.raised = "none"
    /\ ImagePixel(0, 0, 0) = 0
    /\ ImagePixel(CellHeight + 1, 1, 0) = 11
    /\ ImagePixel(1, CellWidth + 1, 0) = 22


RegisteredIn ==
    {MODEL_SUMMARIES, SUMMARIES, LOSSES, GLOBAL_VARIABLES,
     TRAINABLE_VARIABLES, MODEL_VARIABLES, REQUIRED_NON_TRAINABLES}

=============================================================================
